---- MODULE Spec2Model ----
(***************************************************************************)
(* Model of qiita_db/artifact.py: the Artifact object over the tables of   *)
(* the qiita schema it reads and writes.  Every public operation of the    *)
(* class runs inside one `with TRN:` block; Spec takes each block as one   *)
(* atomic step, SpecConc splits a block into the step that runs its        *)
(* queries and the step that commits it.                                   *)
(***************************************************************************)
EXTENDS Naturals, FiniteSets, Sequences, TLC

\* ------------------------------------------------------------------ bounds
\* Artifacts created in one run of Spec and of SpecConc.
MaxArtifacts == 2
\* Artifacts created in one run of SpecLineage.
MaxLineage == 3
\* Setter calls (visibility, accessions, VAMPS flag, analysis reference) that
\* commit in one run.
MaxWrites == 2

\* ------------------------------------------------------- vocabularies
\* SQL NULL in prep_template.artifact_id.
NoArtifact == 0
\* Python None for an argument that was not supplied.
None == "None"
\* Prep templates of the deployment, with the study and data type of each.
PrepTemplates == {"pt1", "pt2", "pt3"}
pt_study_id == [pt1 |-> "st1", pt2 |-> "st1", pt3 |-> "st2"]
pt_data_type == [pt1 |-> "16S", pt2 |-> "18S", pt3 |-> "16S"]
\* qiita.visibility
Visibilities == {"sandbox", "private", "public"}
\* Parameters objects a caller can pass: (command id, parameter-set id).
ProcessingParameters == {[command |-> "cmd1", id |-> "ps1"],
                         [command |-> "cmd2", id |-> "ps2"]}
\* Python None for the processing_parameters argument and property.
NoParameters == [command |-> None, id |-> None]
\* File lists a caller can pass to create.
FilepathLists == {<<>>, <<"seqs.fastq">>}
\* Accession dictionaries a caller can pass, as sets of (sample, accession).
SampleIds == {"sa1"}
Accessions == {"ERR1", "ERR2"}
AccessionDicts == {{}} \cup {{<<s, e>>} : s \in SampleIds, e \in Accessions}

\* Exception classes.
CreationError == "QiitaDBArtifactCreationError"
DeletionError == "QiitaDBArtifactDeletionError"
NotPermitted == "QiitaDBOperationNotPermittedError"
UnknownID == "QiitaDBUnknownIDError"
TypeError == "TypeError"
StoreError == "ProgrammingError"
Ok == "ok"

VARIABLES
    artifact,           \* qiita.artifact: artifact_id -> row
    next_id,            \* the serial behind artifact_id
    parent_artifact,    \* qiita.parent_artifact: rows <<artifact_id, parent_id>>
    prep_template,      \* qiita.prep_template.artifact_id, per prep template
    study_artifact,     \* qiita.study_artifact: rows <<study_id, artifact_id>>
    artifact_filepath,  \* qiita.artifact_filepath: rows <<artifact_id, path>>
    uploads,            \* files in the uploads folder: <<study_id, path>>
    analysis_sample,    \* artifact ids qiita.analysis_sample references
    ebi_run_accession,  \* qiita.ebi_run_accession: <<sample_id, artifact_id, acc>>
    writes,             \* setter calls committed so far (bounded by MaxWrites)
    last,               \* what the last call returned or raised
    trn                 \* per caller: the transaction it has open (SpecConc)

tables == <<artifact, next_id, parent_artifact, prep_template, study_artifact,
            artifact_filepath, uploads, analysis_sample, ebi_run_accession>>
vars == <<artifact, next_id, parent_artifact, prep_template, study_artifact,
          artifact_filepath, uploads, analysis_sample, ebi_run_accession,
          writes, last, trn>>

\* The ids the serial column has handed out: those a caller can hold.
ArtifactIds == 1..(next_id - 1)

Callers == {"c1", "c2"}
SerializationFailure == "TransactionRollbackError"

\* A call in flight: the operation and its arguments.
Call(op, id, fps, pt, pars, pp, ebi, vamps, values) ==
    [op |-> op, id |-> id, fps |-> fps, pt |-> pt, pars |-> pars, pp |-> pp,
     ebi |-> ebi, vamps |-> vamps, values |-> values]

\* What a call hands back to its caller.
Outcome(op, id, err, msg, val, flag) ==
    [op |-> op, id |-> id, err |-> err, msg |-> msg, val |-> val, flag |-> flag]
Returned(op, id) == Outcome(op, id, Ok, "", {}, FALSE)
Raised(op, id, o) == Outcome(op, id, o[1], o[2], {}, FALSE)

\* Every row that mentions one of the artifacts in S.
rows_of(S) ==
    [artifact |-> [x \in S \cap DOMAIN artifact |-> artifact[x]],
     parent_artifact |-> {r \in parent_artifact : r[1] \in S \/ r[2] \in S},
     prep_template |-> {pt \in PrepTemplates : prep_template[pt] \in S},
     study_artifact |-> {r \in study_artifact : r[2] \in S},
     artifact_filepath |-> {r \in artifact_filepath : r[1] \in S},
     analysis_sample |-> analysis_sample \cap S,
     ebi_run_accession |-> {r \in ebi_run_accession : r[2] \in S}]

\* No transaction open.
Idle == [call |-> Call("idle", NoArtifact, <<>>, None, {}, NoParameters,
                       FALSE, FALSE, {}),
         reads |-> rows_of({})]

\* ------------------------------------------------------------ accessors
Exists(a) == a \in DOMAIN artifact

\* Artifact.parents
parents(a) == {r[2] : r \in {x \in parent_artifact : x[1] = a}}

\* Artifact.children
children(a) == {r[1] : r \in {x \in parent_artifact : x[2] = a}}

\* Artifact.study
study(a) == {r[1] : r \in {x \in study_artifact : x[2] = a}}

\* Artifact.data_type
data_type(a) == artifact[a].data_type

\* Artifact.filepaths
filepaths(a) == {r[2] : r \in {x \in artifact_filepath : x[1] = a}}

\* Artifact.processing_parameters
processing_parameters(a) ==
    IF artifact[a].command_id = None THEN NoParameters
    ELSE [command |-> artifact[a].command_id,
          id |-> artifact[a].command_parameters_id]

\* The rows of qiita.ebi_run_accession of one artifact, as a dictionary.
accessions_of(a) ==
    {<<r[1], r[3]>> : r \in {x \in ebi_run_accession : x[2] = a}}

\* qiita.find_artifact_roots: the parentless ancestors of a (a itself when it
\* has no parent).
RECURSIVE find_artifact_roots(_)
find_artifact_roots(a) ==
    IF parents(a) = {} THEN {a}
    ELSE UNION {find_artifact_roots(p) : p \in parents(a)}

\* Artifact.prep_templates
prep_templates(a) ==
    {pt \in PrepTemplates : prep_template[pt] \in find_artifact_roots(a)}

\* ------------------------------------------------------------- create
\* create_outcome without the check that the parents have one data type.
create_outcome_no_dtype_check(fps, pt, pars, pp) ==
    IF fps = <<>> THEN
        <<CreationError, "at least one filepath is required.">>
    ELSE IF pars # {} /\ pt # None THEN
        <<CreationError, "parents or prep_template should be provided but not both">>
    ELSE IF pars = {} /\ pt = None THEN
        <<CreationError, "at least parents or prep_template must be provided">>
    ELSE IF pars # {} /\ pp = NoParameters THEN
        <<CreationError, "if parents is provided, processing_parameters should also be provided.">>
    ELSE IF pt # None /\ pp # NoParameters THEN
        <<CreationError, "if prep_template is provided, processing_parameters should not be provided.">>
    ELSE IF pars # {} /\ Cardinality(UNION {study(p) : p \in pars}) > 1 THEN
        <<TypeError, "sequence item 0: expected str instance">>
    ELSE <<Ok, "">>

\* create_outcome without the check that parents come with processing
\* parameters.
create_outcome_no_parameters_check(fps, pt, pars, pp) ==
    IF fps = <<>> THEN
        <<CreationError, "at least one filepath is required.">>
    ELSE IF pars # {} /\ pt # None THEN
        <<CreationError, "parents or prep_template should be provided but not both">>
    ELSE IF pars = {} /\ pt = None THEN
        <<CreationError, "at least parents or prep_template must be provided">>
    ELSE IF pt # None /\ pp # NoParameters THEN
        <<CreationError, "if prep_template is provided, processing_parameters should not be provided.">>
    ELSE IF pars # {} /\ Cardinality(UNION {study(p) : p \in pars}) > 1 THEN
        <<TypeError, "sequence item 0: expected str instance">>
    ELSE IF pars # {} /\ Cardinality({data_type(p) : p \in pars}) > 1 THEN
        <<CreationError, "parents have multiple data types",
          {data_type(p) : p \in pars}>>
    ELSE <<Ok, "">>

\* create_outcome without the check that there is a file.
create_outcome_no_filepaths_check(fps, pt, pars, pp) ==
    IF pars # {} /\ pt # None THEN
        <<CreationError, "parents or prep_template should be provided but not both">>
    ELSE IF pars = {} /\ pt = None THEN
        <<CreationError, "at least parents or prep_template must be provided">>
    ELSE IF pars # {} /\ pp = NoParameters THEN
        <<CreationError, "if parents is provided, processing_parameters should also be provided.">>
    ELSE IF pt # None /\ pp # NoParameters THEN
        <<CreationError, "if prep_template is provided, processing_parameters should not be provided.">>
    ELSE IF pars # {} /\ Cardinality(UNION {study(p) : p \in pars}) > 1 THEN
        <<TypeError, "sequence item 0: expected str instance">>
    ELSE IF pars # {} /\ Cardinality({data_type(p) : p \in pars}) > 1 THEN
        <<CreationError, "parents have multiple data types",
          {data_type(p) : p \in pars}>>
    ELSE <<Ok, "">>

\* The checks of create, in the order the code makes them: what it raises,
\* or Ok; the data type error comes with the data types its message lists.
create_outcome(fps, pt, pars, pp) ==
    IF fps = <<>> THEN
        <<CreationError, "at least one filepath is required.">>
    ELSE IF pars # {} /\ pt # None THEN
        <<CreationError, "parents or prep_template should be provided but not both">>
    ELSE IF pars = {} /\ pt = None THEN
        <<CreationError, "at least parents or prep_template must be provided">>
    ELSE IF pars # {} /\ pp = NoParameters THEN
        <<CreationError, "if parents is provided, processing_parameters should also be provided.">>
    ELSE IF pt # None /\ pp # NoParameters THEN
        <<CreationError, "if prep_template is provided, processing_parameters should not be provided.">>
    ELSE IF pars # {} /\ Cardinality(UNION {study(p) : p \in pars}) > 1 THEN
        \* ', '.join(studies) over a set of integer study ids
        <<TypeError, "sequence item 0: expected str instance">>
    ELSE IF pars # {} /\ Cardinality({data_type(p) : p \in pars}) > 1 THEN
        <<CreationError, "parents have multiple data types",
          {data_type(p) : p \in pars}>>
    ELSE <<Ok, "">>

\* PrepTemplate.artifact = instance
prep_template_set_artifact(pt, a_id) ==
    prep_template' = [prep_template EXCEPT ![pt] = a_id]

\* create_writes with the parent edges written from the new artifact to
\* itself: (a_id, a_id) for each parent.
create_writes_self_edge(fps, pt, pars, pp, ebi, vamps) ==
    LET a_id == next_id
        dtype == IF pars # {}
                 THEN CHOOSE d \in {data_type(p) : p \in pars} : TRUE
                 ELSE pt_data_type[pt]
        study_id == IF pars # {}
                    THEN CHOOSE s \in UNION {study(p) : p \in pars} : TRUE
                    ELSE pt_study_id[pt]
        row == [visibility |-> "sandbox",
                data_type |-> dtype,
                command_id |-> IF pars # {} THEN pp.command ELSE None,
                command_parameters_id |-> IF pars # {} THEN pp.id ELSE None,
                can_be_submitted_to_ebi |-> ebi,
                can_be_submitted_to_vamps |-> vamps,
                submitted_to_vamps |-> FALSE]
    IN  /\ next_id' = next_id + 1
        /\ artifact' = [x \in DOMAIN artifact \cup {a_id} |->
                            IF x = a_id THEN row ELSE artifact[x]]
        /\ IF pars # {}
           THEN /\ parent_artifact' =
                       parent_artifact \cup {<<a_id, a_id>> : p \in pars}
                /\ UNCHANGED prep_template
           ELSE /\ prep_template_set_artifact(pt, a_id)
                /\ UNCHANGED parent_artifact
        /\ study_artifact' = study_artifact \cup {<<study_id, a_id>>}
        /\ artifact_filepath' = artifact_filepath \cup
               {<<a_id, fps[i]>> : i \in 1..Len(fps)}
        /\ UNCHANGED <<uploads, analysis_sample, ebi_run_accession>>

\* create_writes with the edge INSERT run for one parent only.
create_writes_one_edge(fps, pt, pars, pp, ebi, vamps) ==
    LET a_id == next_id
        dtype == IF pars # {}
                 THEN CHOOSE d \in {data_type(p) : p \in pars} : TRUE
                 ELSE pt_data_type[pt]
        study_id == IF pars # {}
                    THEN CHOOSE s \in UNION {study(p) : p \in pars} : TRUE
                    ELSE pt_study_id[pt]
        row == [visibility |-> "sandbox",
                data_type |-> dtype,
                command_id |-> IF pars # {} THEN pp.command ELSE None,
                command_parameters_id |-> IF pars # {} THEN pp.id ELSE None,
                can_be_submitted_to_ebi |-> ebi,
                can_be_submitted_to_vamps |-> vamps,
                submitted_to_vamps |-> FALSE]
    IN  /\ next_id' = next_id + 1
        /\ artifact' = [x \in DOMAIN artifact \cup {a_id} |->
                            IF x = a_id THEN row ELSE artifact[x]]
        /\ IF pars # {}
           THEN /\ parent_artifact' = parent_artifact \cup
                       {<<a_id, CHOOSE p \in pars : TRUE>>}
                /\ UNCHANGED prep_template
           ELSE /\ prep_template_set_artifact(pt, a_id)
                /\ UNCHANGED parent_artifact
        /\ study_artifact' = study_artifact \cup {<<study_id, a_id>>}
        /\ artifact_filepath' = artifact_filepath \cup
               {<<a_id, fps[i]>> : i \in 1..Len(fps)}
        /\ UNCHANGED <<uploads, analysis_sample, ebi_run_accession>>

\* The statements of a create that passed its checks.
create_writes(fps, pt, pars, pp, ebi, vamps) ==
    LET a_id == next_id
        dtype == IF pars # {}
                 THEN CHOOSE d \in {data_type(p) : p \in pars} : TRUE
                 ELSE pt_data_type[pt]
        study_id == IF pars # {}
                    THEN CHOOSE s \in UNION {study(p) : p \in pars} : TRUE
                    ELSE pt_study_id[pt]
        row == [visibility |-> "sandbox",
                data_type |-> dtype,
                command_id |-> IF pars # {} THEN pp.command ELSE None,
                command_parameters_id |-> IF pars # {} THEN pp.id ELSE None,
                can_be_submitted_to_ebi |-> ebi,
                can_be_submitted_to_vamps |-> vamps,
                submitted_to_vamps |-> FALSE]
    IN  /\ next_id' = next_id + 1
        /\ artifact' = [x \in DOMAIN artifact \cup {a_id} |->
                            IF x = a_id THEN row ELSE artifact[x]]
        /\ IF pars # {}
           THEN /\ parent_artifact' =
                       parent_artifact \cup {<<a_id, p>> : p \in pars}
                /\ UNCHANGED prep_template
           ELSE /\ prep_template_set_artifact(pt, a_id)
                /\ UNCHANGED parent_artifact
        /\ study_artifact' = study_artifact \cup {<<study_id, a_id>>}
        /\ artifact_filepath' = artifact_filepath \cup
               {<<a_id, fps[i]>> : i \in 1..Len(fps)}
        /\ UNCHANGED <<uploads, analysis_sample, ebi_run_accession>>

\* Artifact.create
create(fps, pt, pars, pp, ebi, vamps) ==
    LET o == create_outcome(fps, pt, pars, pp)
    IN  /\ IF o[1] = Ok
           THEN /\ create_writes(fps, pt, pars, pp, ebi, vamps)
                /\ last' = Returned("create", next_id)
           ELSE /\ UNCHANGED tables
                /\ last' = Raised("create", NoArtifact, o)
        /\ UNCHANGED <<writes, trn>>

\* The steps of create after the INSERT of the artifact row that can raise:
\* linking the prep template, associating the study, inserting the file paths.
LaterSteps == {"prep_template.artifact", "study_artifact", "insert_filepaths"}

\* create_aborted with no transaction around the statements: the artifact row
\* inserted before the step that raises stays.
create_aborted_row_stays(fps, pt, pars, pp, step) ==
    LET row == [visibility |-> "sandbox",
                data_type |-> IF pars # {}
                              THEN CHOOSE d \in {data_type(p) : p \in pars} : TRUE
                              ELSE pt_data_type[pt],
                command_id |-> IF pars # {} THEN pp.command ELSE None,
                command_parameters_id |-> IF pars # {} THEN pp.id ELSE None,
                can_be_submitted_to_ebi |-> FALSE,
                can_be_submitted_to_vamps |-> FALSE,
                submitted_to_vamps |-> FALSE]
    IN  /\ create_outcome(fps, pt, pars, pp)[1] = Ok
        /\ step = "prep_template.artifact" => pt # None
        /\ next_id' = next_id + 1
        /\ artifact' = [x \in DOMAIN artifact \cup {next_id} |->
                            IF x = next_id THEN row ELSE artifact[x]]
        /\ last' = Raised("create", NoArtifact, <<StoreError, step>>)
        /\ UNCHANGED <<parent_artifact, prep_template, study_artifact,
                       artifact_filepath, uploads, analysis_sample,
                       ebi_run_accession, writes, trn>>

\* Artifact.create when a step after the INSERT of the artifact row raises:
\* the exception leaves the `with TRN:` block, which rolls back every
\* statement of the block.  The serial behind artifact_id has moved on.
create_aborted(fps, pt, pars, pp, step) ==
    /\ create_outcome(fps, pt, pars, pp)[1] = Ok
    /\ step = "prep_template.artifact" => pt # None
    /\ next_id' = next_id + 1
    /\ last' = Raised("create", NoArtifact, <<StoreError, step>>)
    /\ UNCHANGED <<artifact, parent_artifact, prep_template, study_artifact,
                   artifact_filepath, uploads, analysis_sample,
                   ebi_run_accession, writes, trn>>

\* ------------------------------------------------------------- delete
\* delete_outcome without its last check, the VAMPS one.
delete_outcome_no_vamps_check(a) ==
    IF ~Exists(a) THEN <<UnknownID, "">>
    ELSE IF artifact[a].visibility = "public" THEN
        <<DeletionError, "it is public">>
    ELSE IF children(a) # {} THEN
        <<DeletionError, "it has children">>
    ELSE IF a \in analysis_sample THEN
        <<DeletionError, "it has been analyzed">>
    ELSE IF artifact[a].can_be_submitted_to_ebi /\ accessions_of(a) # {} THEN
        <<DeletionError, "it has been submitted to EBI">>
    ELSE IF parents(a) = {} /\ prep_templates(a) = {} THEN
        <<StoreError, "syntax error at or near )">>
    ELSE <<Ok, "">>

\* delete_outcome without its children check.
delete_outcome_no_children_check(a) ==
    IF ~Exists(a) THEN <<UnknownID, "">>
    ELSE IF artifact[a].visibility = "public" THEN
        <<DeletionError, "it is public">>
    ELSE IF a \in analysis_sample THEN
        <<DeletionError, "it has been analyzed">>
    ELSE IF artifact[a].can_be_submitted_to_ebi /\ accessions_of(a) # {} THEN
        <<DeletionError, "it has been submitted to EBI">>
    ELSE IF artifact[a].can_be_submitted_to_vamps
            /\ artifact[a].submitted_to_vamps THEN
        <<DeletionError, "it has been submitted to VAMPS">>
    ELSE IF parents(a) = {} /\ prep_templates(a) = {} THEN
        <<StoreError, "syntax error at or near )">>
    ELSE <<Ok, "">>

\* The checks of delete, in the order the code makes them.
delete_outcome(a) ==
    IF ~Exists(a) THEN <<UnknownID, "">>
    ELSE IF artifact[a].visibility = "public" THEN
        <<DeletionError, "it is public">>
    ELSE IF children(a) # {} THEN
        <<DeletionError, "it has children">>
    ELSE IF a \in analysis_sample THEN
        <<DeletionError, "it has been analyzed">>
    ELSE IF artifact[a].can_be_submitted_to_ebi /\ accessions_of(a) # {} THEN
        <<DeletionError, "it has been submitted to EBI">>
    ELSE IF artifact[a].can_be_submitted_to_vamps
            /\ artifact[a].submitted_to_vamps THEN
        <<DeletionError, "it has been submitted to VAMPS">>
    ELSE IF parents(a) = {} /\ prep_templates(a) = {} THEN
        \* UPDATE ... WHERE prep_template_id IN () : the store rejects the
        \* statement and the transaction rolls back.
        <<StoreError, "syntax error at or near )">>
    ELSE <<Ok, "">>

\* delete_writes deleting the edges by parent_id: those of the siblings go too.
delete_writes_edges_by_parent(a) ==
    /\ artifact_filepath' = {r \in artifact_filepath : r[1] # a}
    /\ IF parents(a) = {}
       THEN /\ uploads' = uploads \cup
                   {<<s, f>> : s \in study(a), f \in filepaths(a)}
            /\ prep_template' = [pt \in PrepTemplates |->
                   IF pt \in prep_templates(a) THEN NoArtifact
                   ELSE prep_template[pt]]
            /\ UNCHANGED parent_artifact
       ELSE /\ parent_artifact' =
                   {r \in parent_artifact : r[2] \notin parents(a)}
            /\ UNCHANGED <<uploads, prep_template>>
    /\ study_artifact' = {r \in study_artifact : r[2] # a}
    /\ artifact' = [x \in DOMAIN artifact \ {a} |-> artifact[x]]
    /\ UNCHANGED <<next_id, analysis_sample, ebi_run_accession>>

\* delete_writes without the UPDATE that nulls the template's back-reference.
delete_writes_keep_link(a) ==
    /\ artifact_filepath' = {r \in artifact_filepath : r[1] # a}
    /\ IF parents(a) = {}
       THEN /\ uploads' = uploads \cup
                   {<<s, f>> : s \in study(a), f \in filepaths(a)}
            /\ UNCHANGED <<parent_artifact, prep_template>>
       ELSE /\ parent_artifact' = {r \in parent_artifact : r[1] # a}
            /\ UNCHANGED <<uploads, prep_template>>
    /\ study_artifact' = {r \in study_artifact : r[2] # a}
    /\ artifact' = [x \in DOMAIN artifact \ {a} |-> artifact[x]]
    /\ UNCHANGED <<next_id, analysis_sample, ebi_run_accession>>

\* delete_writes without the DELETE on parent_artifact.
delete_writes_keep_edges(a) ==
    /\ artifact_filepath' = {r \in artifact_filepath : r[1] # a}
    /\ IF parents(a) = {}
       THEN /\ uploads' = uploads \cup
                   {<<s, f>> : s \in study(a), f \in filepaths(a)}
            /\ prep_template' = [pt \in PrepTemplates |->
                   IF pt \in prep_templates(a) THEN NoArtifact
                   ELSE prep_template[pt]]
       ELSE UNCHANGED <<uploads, prep_template>>
    /\ UNCHANGED parent_artifact
    /\ study_artifact' = {r \in study_artifact : r[2] # a}
    /\ artifact' = [x \in DOMAIN artifact \ {a} |-> artifact[x]]
    /\ UNCHANGED <<next_id, analysis_sample, ebi_run_accession>>

\* The statements of a delete that passed its checks.
delete_writes(a) ==
    /\ artifact_filepath' = {r \in artifact_filepath : r[1] # a}
    /\ IF parents(a) = {}
       THEN /\ uploads' = uploads \cup
                   {<<s, f>> : s \in study(a), f \in filepaths(a)}
            /\ prep_template' = [pt \in PrepTemplates |->
                   IF pt \in prep_templates(a) THEN NoArtifact
                   ELSE prep_template[pt]]
            /\ UNCHANGED parent_artifact
       ELSE /\ parent_artifact' = {r \in parent_artifact : r[1] # a}
            /\ UNCHANGED <<uploads, prep_template>>
    /\ study_artifact' = {r \in study_artifact : r[2] # a}
    /\ artifact' = [x \in DOMAIN artifact \ {a} |-> artifact[x]]
    /\ UNCHANGED <<next_id, analysis_sample, ebi_run_accession>>

\* delete detaching the file paths before it makes its checks, outside the
\* transaction.
delete_detach_first(a) ==
    LET o == delete_outcome(a)
    IN  /\ IF o[1] = Ok
           THEN delete_writes(a)
           ELSE /\ artifact_filepath' = {r \in artifact_filepath : r[1] # a}
                /\ UNCHANGED <<artifact, next_id, parent_artifact,
                               prep_template, study_artifact, uploads,
                               analysis_sample, ebi_run_accession>>
        /\ last' = Raised("delete", a, o)
        /\ UNCHANGED <<writes, trn>>

\* Artifact.delete
delete(a) ==
    LET o == delete_outcome(a)
    IN  /\ IF o[1] = Ok
           THEN delete_writes(a)
           ELSE UNCHANGED tables
        /\ last' = Raised("delete", a, o)
        /\ UNCHANGED <<writes, trn>>

\* ------------------------------------------------- visibility, analysis
\* The visibility setter with an order enforced: a public artifact stays
\* public.
set_visibility_public_stays(a, value) ==
    /\ Exists(a)
    /\ writes < MaxWrites
    /\ artifact' = [artifact EXCEPT ![a].visibility =
                        IF artifact[a].visibility = "public" THEN "public"
                        ELSE value]
    /\ writes' = writes + 1
    /\ last' = Returned("set_visibility", a)
    /\ UNCHANGED <<next_id, parent_artifact, prep_template, study_artifact,
                   artifact_filepath, uploads, analysis_sample,
                   ebi_run_accession, trn>>

\* The visibility setter with no WHERE clause on its UPDATE: every artifact
\* gets the value.
set_visibility_no_where(a, value) ==
    /\ Exists(a)
    /\ writes < MaxWrites
    /\ artifact' = [x \in DOMAIN artifact |->
                        [artifact[x] EXCEPT !.visibility = value]]
    /\ writes' = writes + 1
    /\ last' = Returned("set_visibility", a)
    /\ UNCHANGED <<next_id, parent_artifact, prep_template, study_artifact,
                   artifact_filepath, uploads, analysis_sample,
                   ebi_run_accession, trn>>

\* Artifact.visibility (setter)
set_visibility(a, value) ==
    /\ Exists(a)
    /\ writes < MaxWrites
    /\ artifact' = [artifact EXCEPT ![a].visibility = value]
    /\ writes' = writes + 1
    /\ last' = Returned("set_visibility", a)
    /\ UNCHANGED <<next_id, parent_artifact, prep_template, study_artifact,
                   artifact_filepath, uploads, analysis_sample,
                   ebi_run_accession, trn>>

\* The analysis pipeline references an artifact in qiita.analysis_sample.
add_analysis_sample(a) ==
    /\ Exists(a)
    /\ writes < MaxWrites
    /\ analysis_sample' = analysis_sample \cup {a}
    /\ writes' = writes + 1
    /\ last' = Returned("add_analysis_sample", a)
    /\ UNCHANGED <<artifact, next_id, parent_artifact, prep_template,
                   study_artifact, artifact_filepath, uploads,
                   ebi_run_accession, trn>>

\* ------------------------------------------------------ EBI accessions
\* Artifact.ebi_run_accessions (getter)
get_ebi_run_accessions(a) ==
    /\ Exists(a)
    /\ last' = IF ~artifact[a].can_be_submitted_to_ebi
               THEN Raised("get_ebi_run_accessions", a,
                           <<NotPermitted, "cannot be submitted to EBI">>)
               ELSE Outcome("get_ebi_run_accessions", a, Ok, "",
                            accessions_of(a), FALSE)
    /\ UNCHANGED <<tables, writes, trn>>

\* set_ebi_outcome without the check for rows already there.
set_ebi_outcome_no_exists_check(a) ==
    IF ~artifact[a].can_be_submitted_to_ebi THEN
        <<NotPermitted, "cannot be submitted to EBI">>
    ELSE <<Ok, "">>

\* set_ebi_outcome without the capability check.
set_ebi_outcome_no_capability_check(a) ==
    IF \E r \in ebi_run_accession : r[2] = a THEN
        <<NotPermitted, "already submitted to EBI">>
    ELSE <<Ok, "">>

\* The checks of the accessions setter, in the order the code makes them.
set_ebi_outcome(a) ==
    IF ~artifact[a].can_be_submitted_to_ebi THEN
        <<NotPermitted, "cannot be submitted to EBI">>
    ELSE IF \E r \in ebi_run_accession : r[2] = a THEN
        <<NotPermitted, "already submitted to EBI">>
    ELSE <<Ok, "">>

\* The INSERT of the accessions setter: one row per item of the dictionary.
set_ebi_writes(a, values) ==
    /\ ebi_run_accession' =
           ebi_run_accession \cup {<<v[1], a, v[2]>> : v \in values}
    /\ UNCHANGED <<artifact, next_id, parent_artifact, prep_template,
                   study_artifact, artifact_filepath, uploads,
                   analysis_sample>>

\* Artifact.ebi_run_accessions (setter)
set_ebi_run_accessions(a, values) ==
    LET o == set_ebi_outcome(a)
    IN  /\ Exists(a)
        /\ IF o[1] = Ok
           THEN /\ writes < MaxWrites
                /\ set_ebi_writes(a, values)
                /\ writes' = writes + 1
                /\ last' = Outcome("set_ebi_run_accessions", a, Ok, "",
                                   values, FALSE)
           ELSE /\ UNCHANGED <<tables, writes>>
                /\ last' = Raised("set_ebi_run_accessions", a, o)
        /\ UNCHANGED trn

\* ---------------------------------------------------------- VAMPS flag
\* Artifact.is_submitted_to_vamps (getter)
get_is_submitted_to_vamps(a) ==
    /\ Exists(a)
    /\ last' = IF ~artifact[a].can_be_submitted_to_vamps
               THEN Raised("get_is_submitted_to_vamps", a,
                           <<NotPermitted, "cannot be submitted to VAMPS">>)
               ELSE Outcome("get_is_submitted_to_vamps", a, Ok, "", {},
                            artifact[a].submitted_to_vamps)
    /\ UNCHANGED <<tables, writes, trn>>

\* The VAMPS setter with a history guard like the one of the accessions
\* setter: a flag that is set cannot be written again.
set_is_submitted_to_vamps_once(a, value) ==
    /\ Exists(a)
    /\ IF ~artifact[a].can_be_submitted_to_vamps
       THEN /\ UNCHANGED <<tables, writes>>
            /\ last' = Raised("set_is_submitted_to_vamps", a,
                              <<NotPermitted, "cannot be submitted to VAMPS">>)
       ELSE IF artifact[a].submitted_to_vamps
       THEN /\ UNCHANGED <<tables, writes>>
            /\ last' = Raised("set_is_submitted_to_vamps", a,
                              <<NotPermitted, "already submitted to VAMPS">>)
       ELSE /\ writes < MaxWrites
            /\ artifact' = [artifact EXCEPT ![a].submitted_to_vamps = value]
            /\ writes' = writes + 1
            /\ last' = Returned("set_is_submitted_to_vamps", a)
            /\ UNCHANGED <<next_id, parent_artifact, prep_template,
                           study_artifact, artifact_filepath, uploads,
                           analysis_sample, ebi_run_accession>>
    /\ UNCHANGED trn

\* The VAMPS setter with its UPDATE on the wrong column:
\* can_be_submitted_to_vamps instead of submitted_to_vamps.
set_is_submitted_to_vamps_wrong_column(a, value) ==
    /\ Exists(a)
    /\ IF ~artifact[a].can_be_submitted_to_vamps
       THEN /\ UNCHANGED <<tables, writes>>
            /\ last' = Raised("set_is_submitted_to_vamps", a,
                              <<NotPermitted, "cannot be submitted to VAMPS">>)
       ELSE /\ writes < MaxWrites
            /\ artifact' =
                   [artifact EXCEPT ![a].can_be_submitted_to_vamps = value]
            /\ writes' = writes + 1
            /\ last' = Returned("set_is_submitted_to_vamps", a)
            /\ UNCHANGED <<next_id, parent_artifact, prep_template,
                           study_artifact, artifact_filepath, uploads,
                           analysis_sample, ebi_run_accession>>
    /\ UNCHANGED trn

\* Artifact.is_submitted_to_vamps (setter)
set_is_submitted_to_vamps(a, value) ==
    /\ Exists(a)
    /\ IF ~artifact[a].can_be_submitted_to_vamps
       THEN /\ UNCHANGED <<tables, writes>>
            /\ last' = Raised("set_is_submitted_to_vamps", a,
                              <<NotPermitted, "cannot be submitted to VAMPS">>)
       ELSE /\ writes < MaxWrites
            /\ artifact' = [artifact EXCEPT ![a].submitted_to_vamps = value]
            /\ writes' = writes + 1
            /\ last' = Returned("set_is_submitted_to_vamps", a)
            /\ UNCHANGED <<next_id, parent_artifact, prep_template,
                           study_artifact, artifact_filepath, uploads,
                           analysis_sample, ebi_run_accession>>
    /\ UNCHANGED trn

\* ------------------------------------------------------- transactions
\* The artifacts whose rows a call reads.
touched(call) == IF call.op = "create" THEN call.pars ELSE {call.id}

\* The checks a call makes on what it reads.
call_outcome(call) ==
    CASE call.op = "create" ->
             create_outcome(call.fps, call.pt, call.pars, call.pp)
      [] call.op = "delete" -> delete_outcome(call.id)
      [] call.op = "set_ebi_run_accessions" -> set_ebi_outcome(call.id)

\* The statements a call queues once its checks passed.
call_writes(call) ==
    CASE call.op = "create" ->
             create_writes(call.fps, call.pt, call.pars, call.pp,
                           call.ebi, call.vamps)
      [] call.op = "delete" -> delete_writes(call.id)
      [] call.op = "set_ebi_run_accessions" ->
             set_ebi_writes(call.id, call.values)

\* The id a call reports: the artifact it is about, or the one it creates.
call_id(call) == IF call.op = "create" THEN next_id ELSE call.id

\* The store's isolation: a transaction commits only if every row it read is
\* as it read it.
trn_valid(c) == rows_of(touched(trn[c].call)) = trn[c].reads

\* Entering `with TRN:` and running the checks: a check that fails raises, and
\* the block is left with nothing written.
TrnBegin(c, call) ==
    /\ trn[c] = Idle
    /\ call.op = "create" => next_id <= MaxArtifacts
    /\ call.op = "set_ebi_run_accessions" => Exists(call.id)
    /\ LET o == call_outcome(call)
       IN  IF o[1] = Ok
           THEN /\ trn' = [trn EXCEPT ![c] =
                               [call |-> call, reads |-> rows_of(touched(call))]]
                /\ UNCHANGED last
           ELSE /\ last' = Raised(call.op,
                                  IF call.op = "create" THEN NoArtifact
                                  ELSE call.id, o)
                /\ UNCHANGED trn
    /\ UNCHANGED <<tables, writes>>

\* Leaving `with TRN:`: the queued statements run and commit, or the store
\* refuses the transaction and rolls it back.
TrnCommit(c) ==
    LET call == trn[c].call
    IN  /\ trn[c] # Idle
        /\ trn' = [trn EXCEPT ![c] = Idle]
        /\ IF trn_valid(c)
           THEN /\ call.op = "create" => next_id <= MaxArtifacts
                /\ call.op = "set_ebi_run_accessions" => writes < MaxWrites
                /\ call_writes(call)
                /\ writes' = IF call.op = "set_ebi_run_accessions"
                             THEN writes + 1 ELSE writes
                /\ last' = Outcome(call.op, call_id(call), Ok, "",
                                   call.values, FALSE)
           ELSE /\ UNCHANGED <<tables, writes>>
                /\ last' = Raised(call.op, call.id,
                                  <<SerializationFailure, "could not serialize">>)

\* ---------------------------------------------------------- specification
Init ==
    /\ artifact = [x \in {} |-> None]
    /\ next_id = 1
    /\ parent_artifact = {}
    /\ prep_template = [pt \in PrepTemplates |-> NoArtifact]
    /\ study_artifact = {}
    /\ artifact_filepath = {}
    /\ uploads = {}
    /\ analysis_sample = {}
    /\ ebi_run_accession = {}
    /\ writes = 0
    /\ last = Returned("init", NoArtifact)
    /\ trn = [c \in Callers |-> Idle]

\* The calls of create a run draws, as <<filepaths, prep_template, parents,
\* processing_parameters>>: every call of one of the two documented shapes,
\* and one call for each way of getting the arguments wrong.
WellFormedCalls ==
    {<<<<"seqs.fastq">>, pt, {}, NoParameters>> : pt \in PrepTemplates}
    \cup {<<<<"seqs.fastq">>, None, pars, pp>> :
              pars \in (SUBSET DOMAIN artifact) \ {{}},
              pp \in ProcessingParameters}
MalformedCalls ==
    {<<<<>>, "pt1", {}, NoParameters>>,
     <<<<"seqs.fastq">>, None, {}, NoParameters>>,
     <<<<"seqs.fastq">>, "pt1", {}, [command |-> "cmd1", id |-> "ps1"]>>}
    \cup {<<<<"seqs.fastq">>, "pt1", pars, [command |-> "cmd1", id |-> "ps1"]>> :
              pars \in (SUBSET DOMAIN artifact) \ {{}}}
    \cup {<<<<"seqs.fastq">>, None, pars, NoParameters>> :
              pars \in (SUBSET DOMAIN artifact) \ {{}}}

\* A call that raises does so whatever the two capability flags are: they
\* are drawn only for the calls that pass the checks.
Create ==
    \E c \in WellFormedCalls \cup MalformedCalls :
        IF create_outcome(c[1], c[2], c[3], c[4])[1] = Ok
        THEN /\ next_id <= MaxArtifacts
             /\ \E ebi \in BOOLEAN, vamps \in BOOLEAN :
                    create(c[1], c[2], c[3], c[4], ebi, vamps)
        ELSE create(c[1], c[2], c[3], c[4], FALSE, FALSE)

Delete == \E a \in ArtifactIds : delete(a)

SetVisibility ==
    \E a \in ArtifactIds, value \in Visibilities : set_visibility(a, value)

AddAnalysisSample == \E a \in ArtifactIds : add_analysis_sample(a)

GetEbi == \E a \in ArtifactIds : get_ebi_run_accessions(a)

SetEbi ==
    \E a \in ArtifactIds, values \in AccessionDicts :
        set_ebi_run_accessions(a, values)

GetVamps == \E a \in ArtifactIds : get_is_submitted_to_vamps(a)

SetVamps ==
    \E a \in ArtifactIds, value \in BOOLEAN :
        set_is_submitted_to_vamps(a, value)

Next ==
    \/ Create
    \/ Delete
    \/ SetVisibility
    \/ AddAnalysisSample
    \/ GetEbi
    \/ SetEbi
    \/ GetVamps
    \/ SetVamps

Spec == Init /\ [][Next]_vars

\* The lineage graph alone: create with the default capability flags, and
\* delete, over more artifacts.
LineageCreate ==
    \E c \in WellFormedCalls \cup MalformedCalls :
        /\ create_outcome(c[1], c[2], c[3], c[4])[1] = Ok
               => next_id <= MaxLineage
        /\ create(c[1], c[2], c[3], c[4], FALSE, FALSE)

NextLineage == LineageCreate \/ Delete

SpecLineage == Init /\ [][NextLineage]_vars

\* Create with its failures, and delete: a create passes its checks and then
\* commits, or is aborted by one of its later steps.
CreateAborted ==
    \E c \in WellFormedCalls, step \in LaterSteps :
        /\ next_id <= MaxLineage
        /\ create_aborted(c[1], c[2], c[3], c[4], step)

NextCreate == LineageCreate \/ CreateAborted \/ Delete

SpecCreate == Init /\ [][NextCreate]_vars

\* The calls two callers race: create (of either shape), delete and the
\* accessions setter.
ConcCalls ==
    {Call("create", NoArtifact, c[1], c[2], c[3], c[4], ebi, FALSE, {}) :
         c \in {w \in WellFormedCalls :
                   w[2] # "pt2" /\ w[4].id # "ps2"},
         ebi \in BOOLEAN}
    \cup {Call("delete", a, <<>>, None, {}, NoParameters, FALSE, FALSE, {}) :
              a \in DOMAIN artifact}
    \cup {Call("set_ebi_run_accessions", a, <<>>, None, {}, NoParameters,
               FALSE, FALSE, values) :
              a \in DOMAIN artifact, values \in AccessionDicts}

Begin == \E c \in Callers, call \in ConcCalls : TrnBegin(c, call)

Commit == \E c \in Callers : TrnCommit(c)

NextConc == Begin \/ Commit

SpecConc == Init /\ [][NextConc]_vars

\* ------------------------------------------------------------------ claims
linked(a) == \E pt \in PrepTemplates : prep_template[pt] = a

\* C1: every existing artifact has at least one parent or is the artifact an
\* upload template points back to, never both and never neither.
C1_ExactlyOneOrigin ==
    \A a \in DOMAIN artifact : (parents(a) # {}) # linked(a)

\* C2: a delete that succeeds never removes an artifact that, just before,
\* had a child, was public, was referenced by an analysis, had a recorded
\* accession or had its VAMPS flag set, whatever its capability flags.
C2_DeleteOnlyWhenDeletable ==
    [][\A a \in DOMAIN artifact :
           a \notin DOMAIN artifact' =>
               /\ children(a) = {}
               /\ artifact[a].visibility # "public"
               /\ a \notin analysis_sample
               /\ accessions_of(a) = {}
               /\ ~artifact[a].submitted_to_vamps]_vars

\* C2 witness: a delete went through after two setter calls.
C2_Witness ==
    /\ last.op = "delete" /\ last.err = Ok
    /\ last.id \notin DOMAIN artifact
    /\ writes = MaxWrites

\* The reason the deletion contract gives for refusing to delete a, from the
\* first of its five conditions that holds; "" when none does.
refusal(a) ==
    IF artifact[a].visibility = "public" THEN "it is public"
    ELSE IF children(a) # {} THEN "it has children"
    ELSE IF a \in analysis_sample THEN "it has been analyzed"
    ELSE IF artifact[a].can_be_submitted_to_ebi /\ accessions_of(a) # {}
        THEN "it has been submitted to EBI"
    ELSE IF artifact[a].can_be_submitted_to_vamps
            /\ artifact[a].submitted_to_vamps
        THEN "it has been submitted to VAMPS"
    ELSE ""

\* C3: delete of an existing artifact raises the deletion error of the first
\* condition that holds, in the order public, children, analysis, EBI,
\* VAMPS; when none holds it succeeds and raises nothing else.
C3_DeleteOutcome ==
    [][\A a \in DOMAIN artifact :
           (last'.op = "delete" /\ last'.id = a) =>
               IF refusal(a) = ""
               THEN last'.err = Ok
               ELSE last'.err = DeletionError /\ last'.msg = refusal(a)]_vars

\* C4: a delete that raises a deletion error leaves every table as it was.
C4_FailedDeleteChangesNothing ==
    [][(last'.op = "delete" /\ last'.err = DeletionError)
           => UNCHANGED tables]_vars

\* C4 witness: a delete was refused for each kind of reason a run can reach
\* last: here the VAMPS one, the last check made.
C4_Witness ==
    /\ last.op = "delete" /\ last.err = DeletionError
    /\ last.msg = "it has been submitted to VAMPS"
    /\ last.id \in DOMAIN artifact

\* C5: a successful delete of an artifact with parents removes its record,
\* its study association, its file-path associations and its parent edges,
\* and nothing else: each former parent is still there, with its former
\* children minus the deleted artifact.
C5_DeleteChild ==
    [][\A a \in DOMAIN artifact :
           (last'.op = "delete" /\ last'.id = a /\ last'.err = Ok
                /\ parents(a) # {}) =>
               /\ artifact' = [x \in DOMAIN artifact \ {a} |-> artifact[x]]
               /\ parent_artifact' =
                      parent_artifact \ {<<a, p>> : p \in parents(a)}
               /\ study_artifact' = {r \in study_artifact : r[2] # a}
               /\ artifact_filepath' = {r \in artifact_filepath : r[1] # a}
               /\ UNCHANGED <<next_id, prep_template, uploads,
                              analysis_sample, ebi_run_accession>>
               /\ \A p \in parents(a) :
                      /\ p \in DOMAIN artifact'
                      /\ children(p)' = children(p) \ {a}]_vars

\* C5 witness: a child was deleted and its parent keeps another child.
C5_Witness ==
    /\ last.op = "delete" /\ last.err = Ok
    /\ last.id \notin DOMAIN artifact
    /\ uploads = {}
    /\ \E p \in DOMAIN artifact : children(p) # {}

\* C6: a successful delete of a parentless artifact nulls the back-reference
\* of the template linked to it, moves its files to the uploads area of its
\* study and removes its study association and record; no template points to
\* the deleted id afterwards.
C6_DeleteRoot ==
    [][\A a \in DOMAIN artifact :
           (last'.op = "delete" /\ last'.id = a /\ last'.err = Ok
                /\ parents(a) = {}) =>
               /\ linked(a)
               /\ prep_template' = [pt \in PrepTemplates |->
                      IF prep_template[pt] = a THEN NoArtifact
                      ELSE prep_template[pt]]
               /\ \A pt \in PrepTemplates : prep_template'[pt] # a
               /\ filepaths(a) # {}
               /\ uploads' = uploads \cup
                      {<<s, f>> : s \in study(a), f \in filepaths(a)}
               /\ study(a) # {}
               /\ artifact_filepath' = {r \in artifact_filepath : r[1] # a}
               /\ study_artifact' = {r \in study_artifact : r[2] # a}
               /\ artifact' = [x \in DOMAIN artifact \ {a} |-> artifact[x]]
               /\ UNCHANGED parent_artifact]_vars

\* C6 witness: a root was deleted while another root stays linked.
C6_Witness ==
    /\ last.op = "delete" /\ last.err = Ok
    /\ uploads # {}
    /\ \E pt \in PrepTemplates : prep_template[pt] = NoArtifact
    /\ \E a \in DOMAIN artifact : linked(a)

\* C7: every lineage edge has its parent and its child among the artifact
\* records, in every interleaving of transactions.
C7_NoDanglingEdge ==
    \A r \in parent_artifact :
        r[1] \in DOMAIN artifact /\ r[2] \in DOMAIN artifact

\* C7 witness: a delete that had passed its children check was refused at
\* commit, the artifact having gained a child meanwhile.
C7_Witness ==
    /\ last.op = "delete" /\ last.err = SerializationFailure
    /\ last.id \in DOMAIN artifact
    /\ children(last.id) # {}

\* C8 as stated: a write attempted right after a write that succeeded, on the
\* same artifact, fails with the not-permitted error.
C8_AtMostOneWrite ==
    [][(/\ last.op = "set_ebi_run_accessions" /\ last.err = Ok
        /\ last'.op = "set_ebi_run_accessions" /\ last'.id = last.id)
           => last'.err = NotPermitted]_vars

\* C8 amended: a write stores exactly the dictionary given, into an empty
\* mapping; once an artifact has an accession, every step keeps the artifact
\* and its mapping, every write to it fails with the not-permitted error and
\* every read of it returns the mapping.
C8_WriteOnce ==
    [][\A a \in DOMAIN artifact :
           /\ (last'.op = "set_ebi_run_accessions" /\ last'.id = a
                   /\ last'.err = Ok) =>
                  /\ artifact[a].can_be_submitted_to_ebi
                  /\ accessions_of(a) = {}
                  /\ accessions_of(a)' = last'.val
           /\ accessions_of(a) # {} =>
                  /\ a \in DOMAIN artifact'
                  /\ accessions_of(a)' = accessions_of(a)
                  /\ (last'.op = "set_ebi_run_accessions" /\ last'.id = a)
                         => last'.err = NotPermitted
                  /\ (last'.op = "get_ebi_run_accessions" /\ last'.id = a)
                         => last'.err = Ok /\ last'.val = accessions_of(a)]_vars

\* C8 witness: a second write was refused on an artifact that has accessions.
C8_Witness ==
    /\ last.op = "set_ebi_run_accessions" /\ last.err = NotPermitted
    /\ last.msg = "already submitted to EBI"
    /\ accessions_of(last.id) # {}

\* Caller c has a write of accessions to artifact a in flight.
writing(c, a) ==
    trn[c].call.op = "set_ebi_run_accessions" /\ trn[c].call.id = a

C10_EbiNeedsCapability ==
    [][\A a \in DOMAIN artifact :
           /\ (~artifact[a].can_be_submitted_to_ebi
                   /\ last'.op \in {"get_ebi_run_accessions",
                                    "set_ebi_run_accessions"}
                   /\ last'.id = a) =>
                  /\ last'.err = NotPermitted
                  /\ UNCHANGED tables
           /\ ~artifact[a].can_be_submitted_to_ebi => accessions_of(a) = {}
           /\ (a \in DOMAIN artifact'
                   /\ ~artifact'[a].can_be_submitted_to_ebi)
                  => accessions_of(a)' = {}]_vars

\* C10 witness: a write was refused for want of the capability, on an
\* artifact that can be submitted to VAMPS.
C10_Witness ==
    /\ last.op = "set_ebi_run_accessions" /\ last.err = NotPermitted
    /\ last.msg = "cannot be submitted to EBI"
    /\ artifact[last.id].can_be_submitted_to_vamps

\* C11: on an artifact that cannot be submitted to VAMPS, reading and writing
\* the submitted flag raise the not-permitted error, change no table and the
\* flag is and stays false; on one that can, a write of either value over
\* either value succeeds and leaves the flag at the value written, every
\* other column and table as it was.
C11_VampsNeedsCapability ==
    [][\A a \in DOMAIN artifact :
           /\ (~artifact[a].can_be_submitted_to_vamps
                   /\ last'.op \in {"get_is_submitted_to_vamps",
                                    "set_is_submitted_to_vamps"}
                   /\ last'.id = a) =>
                  /\ last'.err = NotPermitted
                  /\ UNCHANGED tables
           /\ ~artifact[a].can_be_submitted_to_vamps =>
                  ~artifact[a].submitted_to_vamps
           /\ \A value \in BOOLEAN :
                  (artifact[a].can_be_submitted_to_vamps
                       /\ set_is_submitted_to_vamps(a, value)) =>
                      /\ last'.err = Ok
                      /\ artifact' =
                             [artifact EXCEPT ![a].submitted_to_vamps = value]
           /\ (artifact[a].can_be_submitted_to_vamps
                   /\ last'.op = "get_is_submitted_to_vamps"
                   /\ last'.id = a) =>
                  /\ last'.err = Ok
                  /\ last'.flag = artifact[a].submitted_to_vamps]_vars

\* C11 witness: a write went through on an artifact that can be submitted to
\* VAMPS and left its flag set, after an earlier setter call.
C11_Witness ==
    /\ last.op = "set_is_submitted_to_vamps" /\ last.err = Ok
    /\ artifact[last.id].can_be_submitted_to_vamps
    /\ artifact[last.id].submitted_to_vamps
    /\ writes = MaxWrites

\* The artifacts reached from those of S by at most n steps of children().
RECURSIVE reached(_, _)
reached(S, n) ==
    IF n = 0 THEN S
    ELSE reached(S \cup UNION {children(x) : x \in S}, n - 1)

\* The artifacts reached from a by one or more steps of children().
descendants(a) == reached(children(a), Cardinality(parent_artifact))

\* C12: no artifact is reached from itself by one or more steps of
\* children(), in every state create and delete lead to; the edges always go
\* from an artifact to one created before it.
C12_Acyclic ==
    /\ \A a \in DOMAIN artifact : a \notin descendants(a)
    /\ \A r \in parent_artifact : r[2] < r[1]

\* C12 witness: a chain of three artifacts, the middle one with a parent and
\* a child.
C12_Witness ==
    \E a \in DOMAIN artifact :
        /\ parents(a) # {} /\ children(a) # {}
        /\ Cardinality(descendants(CHOOSE p \in parents(a) : TRUE)) = 2

\* C13: for every lineage edge the child has the study and the data type of
\* the parent, and an artifact with parents is associated with exactly one
\* study.
C13_InheritsStudyAndDataType ==
    /\ \A r \in parent_artifact :
           /\ study(r[1]) = study(r[2])
           /\ data_type(r[1]) = data_type(r[2])
    /\ \A a \in DOMAIN artifact :
           parents(a) # {} => Cardinality(study(a)) = 1

\* C13 witness: an artifact made from two parents.
C13_Witness ==
    \E a \in DOMAIN artifact :
        /\ Cardinality(parents(a)) = 2
        /\ Cardinality(study(a)) = 1

\* C14: an artifact reads back processing parameters exactly when it has a
\* parent: a (command, parameters) pair with parents, None without.
C14_ParametersIffParents ==
    \A a \in DOMAIN artifact :
        /\ (processing_parameters(a) # NoParameters) <=> (parents(a) # {})
        /\ parents(a) # {} =>
               processing_parameters(a) \in ProcessingParameters

\* C14 witness: a root and an artifact made from it, in one state.
C14_Witness ==
    \E a, b \in DOMAIN artifact :
        /\ parents(a) = {} /\ processing_parameters(a) = NoParameters
        /\ parents(b) = {a}
        /\ processing_parameters(b) = [command |-> "cmd2", id |-> "ps2"]

\* The two shapes of arguments the creation contract accepts.
valid_shape(pt, pars, pp) ==
    \/ pars # {} /\ pp # NoParameters /\ pt = None
    \/ pt # None /\ pars = {} /\ pp = NoParameters

\* C15: in every state, every call of create with an empty file list, and
\* every call whose arguments have neither of the two valid shapes, raises
\* the creation error, whatever the other arguments are.
C15_MalformedCreate ==
    \A fps \in FilepathLists, pt \in PrepTemplates \cup {None},
       pars \in SUBSET DOMAIN artifact,
       pp \in ProcessingParameters \cup {NoParameters} :
        (fps = <<>> \/ ~valid_shape(pt, pars, pp)) =>
            create_outcome(fps, pt, pars, pp)[1] = CreationError

\* C15 witness: a call with no file was refused while artifacts that could
\* have been its parents exist.
C15_Witness ==
    /\ last.op = "create" /\ last.err = CreationError
    /\ last.msg = "at least one filepath is required."
    /\ Cardinality(DOMAIN artifact) >= 2

\* C16: in every state, every call of create whose parents belong to more
\* than one study raises the creation error.
C16_MultiStudyCreationError ==
    \A pars \in SUBSET DOMAIN artifact, pp \in ProcessingParameters :
        Cardinality(UNION {study(p) : p \in pars}) > 1 =>
            create_outcome(<<"seqs.fastq">>, None, pars, pp)[1] = CreationError

\* C17: in every state, every call of create whose parents have one study
\* and more than one data type raises the creation error that lists these
\* data types; and a create that raised it changed no table.
C17_MultiDataType ==
    [][/\ \A pars \in SUBSET DOMAIN artifact, pp \in ProcessingParameters :
              (/\ Cardinality(UNION {study(p) : p \in pars}) = 1
               /\ Cardinality({data_type(p) : p \in pars}) > 1) =>
                  create_outcome(<<"seqs.fastq">>, None, pars, pp) =
                      <<CreationError, "parents have multiple data types",
                        {data_type(p) : p \in pars}>>
       /\ (last'.op = "create"
               /\ last'.msg = "parents have multiple data types") =>
              /\ last'.err = CreationError
              /\ UNCHANGED tables
              /\ \E a, b \in DOMAIN artifact :
                     /\ study(a) = study(b)
                     /\ data_type(a) # data_type(b)]_vars

\* C17 witness: a create from a 16S and an 18S artifact of one study was
\* refused.
C17_Witness ==
    /\ last.op = "create" /\ last.err = CreationError
    /\ last.msg = "parents have multiple data types"
    /\ \E a, b \in DOMAIN artifact :
           /\ study(a) = study(b)
           /\ data_type(a) = "16S" /\ data_type(b) = "18S"

\* C18: a create that fails, by its checks or by a later step, leaves the
\* artifact rows, the lineage edges, the study and file-path associations
\* and the template back-references as they were; one that fails with the
\* creation error has changed nothing at all, the serial included.
C18_CreateAllOrNothing ==
    [][(last'.op = "create" /\ last'.err # Ok) =>
           /\ UNCHANGED <<artifact, parent_artifact, prep_template,
                          study_artifact, artifact_filepath, uploads,
                          analysis_sample, ebi_run_accession>>
           /\ last'.err = CreationError => UNCHANGED tables]_vars

\* C18 witness: a create whose parents passed the checks was aborted while
\* its file paths were inserted, and no third artifact is there.
C18_Witness ==
    /\ last.op = "create" /\ last.err = StoreError
    /\ last.msg = "insert_filepaths"
    /\ next_id = 4
    /\ DOMAIN artifact = {1, 2}
    /\ parents(2) = {1}

\* C19: after a create from parents P with processing parameters X that
\* returned artifact n, parents(n) is exactly P, processing_parameters(n) is
\* exactly X, n is among the children of each member of P, and the children
\* of every artifact outside P are as they were.
C19_CreateRoundTrip ==
    [][\A fps \in FilepathLists, pars \in (SUBSET DOMAIN artifact) \ {{}},
          pp \in ProcessingParameters, ebi \in BOOLEAN, vamps \in BOOLEAN :
           (create(fps, None, pars, pp, ebi, vamps) /\ last'.err = Ok) =>
               \E n \in ArtifactIds' \ ArtifactIds :
                   /\ n = last'.id
                   /\ n \in DOMAIN artifact' /\ n \notin DOMAIN artifact
                   /\ parents(n)' = pars
                   /\ processing_parameters(n)' = pp
                   /\ \A p \in pars : children(p)' = children(p) \cup {n}
                   /\ \A x \in DOMAIN artifact \ pars :
                          children(x)' = children(x)]_vars

\* C19 witness: the last call created an artifact from two parents with the
\* second parameter set.
C19_Witness ==
    /\ last.op = "create" /\ last.err = Ok
    /\ Cardinality(parents(last.id)) = 2
    /\ processing_parameters(last.id) = [command |-> "cmd2", id |-> "ps2"]

\* C20: a create that returns artifact n has stored the two capability flags
\* it was given in the row of n, and no step changes the two flags of an
\* artifact that is there before and after it (an id is never given twice).
C20_FlagsFixedAtCreation ==
    [][/\ \A a \in DOMAIN artifact \cap DOMAIN artifact' :
              /\ artifact'[a].can_be_submitted_to_ebi =
                     artifact[a].can_be_submitted_to_ebi
              /\ artifact'[a].can_be_submitted_to_vamps =
                     artifact[a].can_be_submitted_to_vamps
       /\ DOMAIN artifact' \ DOMAIN artifact \subseteq {next_id}
       /\ next_id' >= next_id
       /\ DOMAIN artifact \subseteq ArtifactIds
       /\ (last'.op = "create" /\ last'.err = Ok) =>
              \A c \in WellFormedCalls, ebi \in BOOLEAN, vamps \in BOOLEAN :
                  create(c[1], c[2], c[3], c[4], ebi, vamps) =>
                      \E n \in ArtifactIds' \ ArtifactIds :
                          /\ n = last'.id
                          /\ artifact'[n].can_be_submitted_to_ebi = ebi
                          /\ artifact'[n].can_be_submitted_to_vamps = vamps]_vars

\* C20 witness: an artifact created with one flag true and the other false
\* still has them so after a visibility write and an accession write on it.
C20_Witness ==
    \E a \in DOMAIN artifact :
        /\ artifact[a].can_be_submitted_to_ebi
        /\ ~artifact[a].can_be_submitted_to_vamps
        /\ artifact[a].visibility = "public"
        /\ accessions_of(a) # {}

\* C21: a create that returns an artifact has made it sandbox; a visibility
\* write of any value of the vocabulary over any value succeeds and leaves
\* the artifact with the value written; and delete raises its public error
\* exactly on the artifacts that are public when it is called.
C21_VisibilityAnyToAny ==
    [][/\ (last'.op = "create" /\ last'.err = Ok) =>
              \E n \in ArtifactIds' \ ArtifactIds :
                  /\ n = last'.id
                  /\ n \in DOMAIN artifact'
                  /\ artifact'[n].visibility = "sandbox"
       /\ \A a \in DOMAIN artifact, value \in Visibilities :
              set_visibility(a, value) =>
                  /\ last'.err = Ok
                  /\ artifact'[a].visibility = value
       /\ \A a \in DOMAIN artifact :
              (last'.op = "delete" /\ last'.id = a) =>
                  (last'.msg = "it is public"
                       <=> artifact[a].visibility = "public")]_vars

\* C21 witness: the only artifact ever created was deleted after two setter
\* calls went through, none of which left an accession or an analysis
\* reference.
C21_Witness ==
    /\ last.op = "delete" /\ last.err = Ok
    /\ writes = MaxWrites
    /\ next_id = 2
    /\ DOMAIN artifact = {}
    /\ ebi_run_accession = {} /\ analysis_sample = {}

\* C22: a VAMPS write that succeeds changes the submitted flag of its
\* artifact and nothing else, an accession write that succeeds changes the
\* accession rows of its artifact and nothing else, a visibility write
\* changes the visibility of its artifact and nothing else: edges,
\* capability flags, study associations, back-references and every other
\* artifact are as they were.
C22_SettersTouchOwnField ==
    [][\A a \in DOMAIN artifact :
           /\ (last'.op = "set_is_submitted_to_vamps" /\ last'.id = a
                   /\ last'.err = Ok) =>
                  /\ \E v \in BOOLEAN :
                         artifact' =
                             [artifact EXCEPT ![a].submitted_to_vamps = v]
                  /\ UNCHANGED <<next_id, parent_artifact, prep_template,
                                 study_artifact, artifact_filepath, uploads,
                                 analysis_sample, ebi_run_accession>>
           /\ (last'.op = "set_ebi_run_accessions" /\ last'.id = a
                   /\ last'.err = Ok) =>
                  /\ {r \in ebi_run_accession' : r[2] # a} =
                         {r \in ebi_run_accession : r[2] # a}
                  /\ UNCHANGED <<artifact, next_id, parent_artifact,
                                 prep_template, study_artifact,
                                 artifact_filepath, uploads, analysis_sample>>
           /\ (last'.op = "set_visibility" /\ last'.id = a) =>
                  /\ \E v \in Visibilities :
                         artifact' = [artifact EXCEPT ![a].visibility = v]
                  /\ UNCHANGED <<next_id, parent_artifact, prep_template,
                                 study_artifact, artifact_filepath, uploads,
                                 analysis_sample, ebi_run_accession>>]_vars

\* C22 witness: a visibility write on a child went through and its parent,
\* submitted to VAMPS by an earlier write, is still sandbox.
C22_Witness ==
    /\ last.op = "set_visibility" /\ last.err = Ok
    /\ artifact[last.id].visibility = "private"
    /\ \E p \in parents(last.id) :
           /\ artifact[p].visibility = "sandbox"
           /\ artifact[p].submitted_to_vamps

\* C23: a create that returns artifact n adds the row of n and the edges
\* from n to its parents, and nothing else to these two tables; a delete of
\* n called right after it succeeds, whether n came from parents or from a
\* template, and takes exactly that row and those edges away again.
C23_CreateThenDelete ==
    [][/\ (last'.op = "create" /\ last'.err = Ok) =>
              \E n \in ArtifactIds' \ ArtifactIds :
                  /\ n = last'.id
                  /\ DOMAIN artifact' = DOMAIN artifact \cup {n}
                  /\ n \notin DOMAIN artifact
                  /\ \A x \in DOMAIN artifact : artifact'[x] = artifact[x]
                  /\ {r \in parent_artifact' : r[1] # n} = parent_artifact
                  /\ \A r \in parent_artifact' : r[2] # n
       /\ \A n \in DOMAIN artifact :
              (last.op = "create" /\ last.err = Ok /\ last.id = n
                   /\ last'.op = "delete" /\ last'.id = n) =>
                  /\ last'.err = Ok
                  /\ artifact' = [x \in DOMAIN artifact \ {n} |-> artifact[x]]
                  /\ parent_artifact' =
                         {r \in parent_artifact : r[1] # n /\ r[2] # n}]_vars

\* C23 witness: an artifact made from a parent was deleted and the parent,
\* a root, is there with no edge left.
C23_Witness ==
    /\ last.op = "delete" /\ last.err = Ok
    /\ last.id = 2
    /\ DOMAIN artifact = {1}
    /\ parent_artifact = {}
    /\ uploads = {}
    /\ writes = 0
====
